---- MODULE Spec2Model ----
(***************************************************************************)
(* Model of package ordset (src/ordset.go): an ordered set made of a       *)
(* container/list linked list (the order) and a map from value to list     *)
(* element (the index).  List elements are modelled as records             *)
(* [id, Value]; the id stands for the *list.Element pointer.               *)
(***************************************************************************)
EXTENDS Integers, Sequences, FiniteSets, TLC

\* ---------------------------------------------------------------- bounds
MaxVal == 2
MaxInit == 4
MaxConc == 1
MaxCalls == 2

\* The element type T is instantiated as a small range of ints.
Values == 0..MaxVal
\* The values of the two-caller runs; MaxConc is also their longest
\* argument list of New.
ConcValues == 0..MaxConc
\* The zero value of T (what a named result holds when never assigned).
ZeroValue == 0
\* The nil *list.Element.
Nil == 0

VARIABLES
  list,      \* o.list: the elements front to back, each [id, Value]
  len,       \* o.list's len field, what Len() returns
  mapping,   \* o.mapping: function from the member values to element ids
  last,      \* the last call: name, arguments, results, and the state before it
  attempted, \* values passed so far as the value argument of Append/Prepend/Insert/New
  live,      \* values reported added and not since reported removed
  mode,      \* "api" for arbitrary calls; "build"/"pop"/"shift" for a drain run
  built,     \* drain run: the values appended, in order
  out,       \* drain run: the results <<v, ok>> of the Pop/Shift calls, in order
  procs,     \* two-caller runs: each caller's position in its call and its locals
  heap,      \* two-caller runs: the fields of the list's elements and of its root
  doubled    \* two-caller runs: the calls that have added one value twice

vars == <<list, len, mapping, last, attempted, live, mode, built, out, procs, heap, doubled>>
\* what no call on the set touches
drainVars == <<mode, built, out, procs, heap, doubled>>

\* ------------------------------------------------------- sequence helpers
Elem(e, v) == [id |-> e, Value |-> v]

InList(l, e) == \E i \in 1..Len(l) : l[i].id = e

IndexOf(l, e) == CHOOSE i \in 1..Len(l) : l[i].id = e

RemoveAt(s, i) == SubSeq(s, 1, i - 1) \o SubSeq(s, i + 1, Len(s))

\* x becomes the element at position i
InsertAt(s, i, x) == SubSeq(s, 1, i - 1) \o <<x>> \o SubSeq(s, i, Len(s))

\* ---------------------------------------------------------- map helpers
MapGet(m, k) == IF k \in DOMAIN m THEN m[k] ELSE Nil

\* variant: the entry is not stored
MapSetDropped(m, k, e) == m

MapSet(m, k, e) == [x \in (DOMAIN m) \cup {k} |-> IF x = k THEN e ELSE m[x]]

\* variant: the entry is not deleted
MapDeleteKept(m, k) == m

MapDelete(m, k) == [x \in (DOMAIN m) \ {k} |-> m[x]]

EmptyMap == [x \in {} |-> Nil]

\* ------------------------------------------------- container/list calls
\* A freshly allocated element: an id no element reachable from the list
\* or the map has.
UsedIds(l, m) == {l[i].id : i \in 1..Len(l)} \cup {m[k] : k \in DOMAIN m}

NewElem(l, m) ==
  CHOOSE e \in 1..(Cardinality(UsedIds(l, m)) + 1) :
    /\ e \notin UsedIds(l, m)
    /\ \A f \in 1..(e - 1) : f \in UsedIds(l, m)

\* list.Front() and list.Back() of a non-empty list
\* The nil element has no Value: reading it is the nil dereference.
NilElem == [id |-> Nil]

\* variant: the back element is taken for the front one
ListFrontIsBack(l) == IF Len(l) = 0 THEN NilElem ELSE l[Len(l)]

ListFront(l) == IF Len(l) = 0 THEN NilElem ELSE l[1]

\* variant: the front element is taken for the back one
ListBackIsFront(l) == IF Len(l) = 0 THEN NilElem ELSE l[1]

ListBack(l) == IF Len(l) = 0 THEN NilElem ELSE l[Len(l)]

\* variant: the element is linked at the head
PushBackAtHead(l, e, v) == <<Elem(e, v)>> \o l

PushBack(l, e, v) == Append(l, Elem(e, v))

\* variant: the element is linked at the tail
PushFrontAtTail(l, e, v) == Append(l, Elem(e, v))

PushFront(l, e, v) == <<Elem(e, v)>> \o l

\* variant: the element after e is unlinked when there is one
ListRemoveNext(l, e) ==
  IF InList(l, e)
  THEN IF IndexOf(l, e) < Len(l) THEN RemoveAt(l, IndexOf(l, e) + 1)
       ELSE RemoveAt(l, IndexOf(l, e))
  ELSE l

\* list.Remove(e): unlinks e when e is an element of the list
ListRemove(l, e) == IF InList(l, e) THEN RemoveAt(l, IndexOf(l, e)) ELSE l

\* list.InsertAfter(v, mark): nil and no change when mark is not in the list
\* variant: the element is linked at the tail
InsertAfterAtTail(l, e, v, mark) ==
  IF InList(l, mark) THEN Append(l, Elem(e, v)) ELSE l

InsertAfter(l, e, v, mark) ==
  IF InList(l, mark) THEN InsertAt(l, IndexOf(l, mark) + 1, Elem(e, v)) ELSE l

\* variant: the element is linked behind mark
InsertBeforeBehind(l, e, v, mark) ==
  IF InList(l, mark) THEN InsertAt(l, IndexOf(l, mark) + 1, Elem(e, v)) ELSE l

InsertBefore(l, e, v, mark) ==
  IF InList(l, mark) THEN InsertAt(l, IndexOf(l, mark), Elem(e, v)) ELSE l

InsertResult(l, e, mark) == IF InList(l, mark) THEN e ELSE Nil

\* variant: e is relinked in front of mark
MoveAfterLinksBefore(l, e, mark) ==
  IF ~InList(l, e) \/ e = mark \/ ~InList(l, mark) THEN l
  ELSE LET x == l[IndexOf(l, e)]
           r == RemoveAt(l, IndexOf(l, e))
       IN InsertAt(r, IndexOf(r, mark), x)

\* list.MoveAfter(e, mark): no change when e or mark is not in the list or
\* e is mark; otherwise e is unlinked and relinked right after mark
MoveAfter(l, e, mark) ==
  IF ~InList(l, e) \/ e = mark \/ ~InList(l, mark) THEN l
  ELSE LET x == l[IndexOf(l, e)]
           r == RemoveAt(l, IndexOf(l, e))
       IN InsertAt(r, IndexOf(r, mark) + 1, x)

\* variant: an element moved before itself is relinked at the front
MoveBeforeSelfToFront(l, e, mark) ==
  IF ~InList(l, e) \/ ~InList(l, mark) THEN l
  ELSE LET x == l[IndexOf(l, e)]
           r == RemoveAt(l, IndexOf(l, e))
       IN IF e = mark THEN <<x>> \o r ELSE InsertAt(r, IndexOf(r, mark), x)

MoveBefore(l, e, mark) ==
  IF ~InList(l, e) \/ e = mark \/ ~InList(l, mark) THEN l
  ELSE LET x == l[IndexOf(l, e)]
           r == RemoveAt(l, IndexOf(l, e))
       IN InsertAt(r, IndexOf(r, mark), x)

\* the list calls of Move: v's element, when v has one, is moved next to
\* mark's element
MoveList(l, m, v, mark, after) ==
  IF v \in DOMAIN m
  THEN IF after THEN MoveAfter(l, m[v], MapGet(m, mark))
                ELSE MoveBefore(l, m[v], MapGet(m, mark))
  ELSE l

\* ------------------------------------------------------------- queries
Len_ == len

Has(v) == v \in DOMAIN mapping

\* the values a Range traversal of l yields, front to back
SliceOf(l) == [i \in 1..Len(l) |-> l[i].Value]

\* Slice(): a slice of Len() values filled by Range; a traversal longer than
\* Len() writes past its end; with Len() zero l.Front() is nil and Range
\* visits nothing
Slice ==
  IF len # 0 /\ Len(list) > len THEN "panic: index out of range"
  ELSE [i \in 1..len |-> IF i <= Len(list) THEN list[i].Value ELSE ZeroValue]

Front == ListFront(list).Value

Back == ListBack(list).Value

\* ------------------------------------------------------------ the calls
\* The record of a call: its name and arguments, what it returned (ok is the
\* bool result, val the value result, err the error), and the list and map
\* it started from.
Call(op, v, mark, after, ok, val, err) ==
  [op |-> op, v |-> v, mark |-> mark, after |-> after,
   ok |-> ok, val |-> val, err |-> err,
   preList |-> list, preMapping |-> mapping]

\* New(elems...): Append of each element in order to an empty set
RECURSIVE NewList(_)
RECURSIVE NewMapping(_)
\* variant: every element is pushed, duplicates included
NewListKeepsAll(elems) == [i \in 1..Len(elems) |-> Elem(i, elems[i])]

NewList(elems) ==
  IF elems = <<>> THEN <<>>
  ELSE LET l == NewList(SubSeq(elems, 1, Len(elems) - 1))
           m == NewMapping(SubSeq(elems, 1, Len(elems) - 1))
           v == elems[Len(elems)]
       IN IF v \in DOMAIN m THEN l ELSE PushBack(l, NewElem(l, m), v)
NewMapping(elems) ==
  IF elems = <<>> THEN EmptyMap
  ELSE LET l == NewList(SubSeq(elems, 1, Len(elems) - 1))
           m == NewMapping(SubSeq(elems, 1, Len(elems) - 1))
           v == elems[Len(elems)]
       IN IF v \in DOMAIN m THEN m ELSE MapSet(m, v, NewElem(l, m))

SeqsUpTo(S, n) == UNION {[1..k -> S] : k \in 0..n}

RangeOf(s) == {s[i] : i \in 1..Len(s)}

NewCall(elems) ==
  [op |-> "New", v |-> ZeroValue, mark |-> ZeroValue, after |-> FALSE,
   ok |-> FALSE, val |-> ZeroValue, err |-> "nil",
   preList |-> <<>>, preMapping |-> EmptyMap]

Init ==
  \E elems \in SeqsUpTo(Values, MaxInit) :
    /\ list = NewList(elems)
    /\ len = Len(NewList(elems))
    /\ mapping = NewMapping(elems)
    /\ last = NewCall(elems)
    /\ attempted = RangeOf(elems)
    /\ live = RangeOf(elems)
    /\ mode = "api"
    /\ built = <<>>
    /\ out = <<>>
    /\ procs = <<>>
    /\ heap = <<>>
    /\ doubled = {}

\* variant: no membership check, the value is always pushed
DoAppendUnchecked(v) ==
  /\ attempted' = attempted \cup {v}
  /\ list' = PushBack(list, NewElem(list, mapping), v)
  /\ len' = len + 1
  /\ mapping' = MapSet(mapping, v, NewElem(list, mapping))
  /\ live' = live \cup {v}
  /\ last' = Call("Append", v, ZeroValue, FALSE, TRUE, ZeroValue, "nil")

\* Append(v)
DoAppend(v) ==
  /\ attempted' = attempted \cup {v}
  /\ IF Has(v)
     THEN /\ UNCHANGED <<list, len, mapping, live>>
          /\ last' = Call("Append", v, ZeroValue, FALSE, FALSE, ZeroValue, "nil")
     ELSE /\ list' = PushBack(list, NewElem(list, mapping), v)
          /\ len' = len + 1
          /\ mapping' = MapSet(mapping, v, NewElem(list, mapping))
          /\ live' = live \cup {v}
          /\ last' = Call("Append", v, ZeroValue, FALSE, TRUE, ZeroValue, "nil")

\* Prepend(v)
DoPrepend(v) ==
  /\ attempted' = attempted \cup {v}
  /\ IF Has(v)
     THEN /\ UNCHANGED <<list, len, mapping, live>>
          /\ last' = Call("Prepend", v, ZeroValue, FALSE, FALSE, ZeroValue, "nil")
     ELSE /\ list' = PushFront(list, NewElem(list, mapping), v)
          /\ len' = len + 1
          /\ mapping' = MapSet(mapping, v, NewElem(list, mapping))
          /\ live' = live \cup {v}
          /\ last' = Call("Prepend", v, ZeroValue, FALSE, TRUE, ZeroValue, "nil")

\* Pop()
DoPop ==
  /\ UNCHANGED attempted
  /\ IF Len_ > 0
     THEN LET elem == ListBack(list)
          IN /\ list' = ListRemove(list, elem.id)
             /\ len' = IF InList(list, elem.id) THEN len - 1 ELSE len
             /\ mapping' = MapDelete(mapping, elem.Value)
             /\ live' = live \ {elem.Value}
             /\ last' = Call("Pop", ZeroValue, ZeroValue, FALSE, TRUE, elem.Value, "nil")
     ELSE /\ UNCHANGED <<list, len, mapping, live>>
          /\ last' = Call("Pop", ZeroValue, ZeroValue, FALSE, FALSE, ZeroValue, "nil")

\* Shift()
DoShift ==
  /\ UNCHANGED attempted
  /\ IF Len_ > 0
     THEN LET elem == ListFront(list)
          IN /\ list' = ListRemove(list, elem.id)
             /\ len' = IF InList(list, elem.id) THEN len - 1 ELSE len
             /\ mapping' = MapDelete(mapping, elem.Value)
             /\ live' = live \ {elem.Value}
             /\ last' = Call("Shift", ZeroValue, ZeroValue, FALSE, TRUE, elem.Value, "nil")
     ELSE /\ UNCHANGED <<list, len, mapping, live>>
          /\ last' = Call("Shift", ZeroValue, ZeroValue, FALSE, FALSE, ZeroValue, "nil")

\* variant: the check on v comes before the check on mark
DoInsertValueFirst(v, mark, after) ==
  /\ attempted' = attempted \cup {v}
  /\ IF Has(v)
     THEN /\ UNCHANGED <<list, len, mapping, live>>
          /\ last' = Call("Insert", v, mark, after, FALSE, ZeroValue, "nil")
     ELSE IF ~Has(mark)
     THEN /\ UNCHANGED <<list, len, mapping, live>>
          /\ last' = Call("Insert", v, mark, after, FALSE, ZeroValue, "ErrMarkNotFound")
     ELSE LET e == NewElem(list, mapping)
              m == MapGet(mapping, mark)
          IN /\ list' = IF after THEN InsertAfter(list, e, v, m)
                                 ELSE InsertBefore(list, e, v, m)
             /\ len' = IF InList(list, m) THEN len + 1 ELSE len
             /\ mapping' = MapSet(mapping, v, InsertResult(list, e, m))
             /\ live' = live \cup {v}
             /\ last' = Call("Insert", v, mark, after, TRUE, ZeroValue, "nil")

\* variant: an existing member v is repositioned next to mark
DoInsertRepositions(v, mark, after) ==
  /\ attempted' = attempted \cup {v}
  /\ IF ~Has(mark)
     THEN /\ UNCHANGED <<list, len, mapping, live>>
          /\ last' = Call("Insert", v, mark, after, FALSE, ZeroValue, "ErrMarkNotFound")
     ELSE IF Has(v)
     THEN /\ list' = IF after THEN MoveAfter(list, mapping[v], mapping[mark])
                               ELSE MoveBefore(list, mapping[v], mapping[mark])
          /\ UNCHANGED <<len, mapping, live>>
          /\ last' = Call("Insert", v, mark, after, FALSE, ZeroValue, "nil")
     ELSE LET e == NewElem(list, mapping)
              m == MapGet(mapping, mark)
          IN /\ list' = IF after THEN InsertAfter(list, e, v, m)
                                 ELSE InsertBefore(list, e, v, m)
             /\ len' = IF InList(list, m) THEN len + 1 ELSE len
             /\ mapping' = MapSet(mapping, v, InsertResult(list, e, m))
             /\ live' = live \cup {v}
             /\ last' = Call("Insert", v, mark, after, TRUE, ZeroValue, "nil")

\* Insert(v, mark, after)
DoInsert(v, mark, after) ==
  /\ attempted' = attempted \cup {v}
  /\ IF ~Has(mark)
     THEN /\ UNCHANGED <<list, len, mapping, live>>
          /\ last' = Call("Insert", v, mark, after, FALSE, ZeroValue, "ErrMarkNotFound")
     ELSE IF Has(v)
     THEN /\ UNCHANGED <<list, len, mapping, live>>
          /\ last' = Call("Insert", v, mark, after, FALSE, ZeroValue, "nil")
     ELSE LET e == NewElem(list, mapping)
              m == MapGet(mapping, mark)
          IN /\ list' = IF after THEN InsertAfter(list, e, v, m)
                                 ELSE InsertBefore(list, e, v, m)
             /\ len' = IF InList(list, m) THEN len + 1 ELSE len
             /\ mapping' = MapSet(mapping, v, InsertResult(list, e, m))
             /\ live' = live \cup {v}
             /\ last' = Call("Insert", v, mark, after, TRUE, ZeroValue, "nil")

\* variant: a value that is not a member is inserted at mark
DoMoveInsertsMissing(v, mark, after) ==
  /\ UNCHANGED <<attempted, live>>
  /\ len' = IF Has(mark) /\ ~Has(v) THEN len + 1 ELSE len
  /\ IF ~Has(mark)
     THEN /\ UNCHANGED <<list, mapping>>
          /\ last' = Call("Move", v, mark, after, FALSE, ZeroValue, "ErrMarkNotFound")
     ELSE /\ list' = IF v \in DOMAIN mapping
                     THEN IF after
                          THEN MoveAfter(list, mapping[v], MapGet(mapping, mark))
                          ELSE MoveBefore(list, mapping[v], MapGet(mapping, mark))
                     ELSE IF after
                          THEN InsertAfter(list, NewElem(list, mapping), v, MapGet(mapping, mark))
                          ELSE InsertBefore(list, NewElem(list, mapping), v, MapGet(mapping, mark))
          /\ mapping' = IF v \in DOMAIN mapping THEN mapping
                        ELSE MapSet(mapping, v, NewElem(list, mapping))
          /\ last' = Call("Move", v, mark, after, FALSE, ZeroValue, "nil")

\* Move(v, mark, after)
DoMove(v, mark, after) ==
  /\ UNCHANGED <<len, attempted, live, mapping>>
  /\ IF ~Has(mark)
     THEN /\ UNCHANGED list
          /\ last' = Call("Move", v, mark, after, FALSE, ZeroValue, "ErrMarkNotFound")
     ELSE /\ list' = MoveList(list, mapping, v, mark, after)
          /\ last' = Call("Move", v, mark, after, FALSE, ZeroValue, "nil")

\* Remove(v)
DoRemove(v) ==
  /\ UNCHANGED attempted
  /\ IF v \in DOMAIN mapping
     THEN /\ list' = ListRemove(list, mapping[v])
          /\ len' = IF InList(list, mapping[v]) THEN len - 1 ELSE len
          /\ mapping' = MapDelete(mapping, v)
          /\ live' = live \ {v}
          /\ last' = Call("Remove", v, ZeroValue, FALSE, TRUE, ZeroValue, "nil")
     ELSE /\ UNCHANGED <<list, len, mapping, live>>
          /\ last' = Call("Remove", v, ZeroValue, FALSE, FALSE, ZeroValue, "nil")

AppendCall == \E v \in Values : DoAppend(v) /\ UNCHANGED drainVars
PrependCall == \E v \in Values : DoPrepend(v) /\ UNCHANGED drainVars
PopCall == DoPop /\ UNCHANGED drainVars
ShiftCall == DoShift /\ UNCHANGED drainVars
InsertCall == \E v \in Values, mark \in Values, after \in BOOLEAN :
                DoInsert(v, mark, after) /\ UNCHANGED drainVars
MoveCall == \E v \in Values, mark \in Values, after \in BOOLEAN :
              DoMove(v, mark, after) /\ UNCHANGED drainVars
RemoveCall == \E v \in Values : DoRemove(v) /\ UNCHANGED drainVars

Next ==
  \/ AppendCall
  \/ PrependCall
  \/ PopCall
  \/ ShiftCall
  \/ InsertCall
  \/ MoveCall
  \/ RemoveCall

Spec == Init /\ [][Next]_vars

\* ------------------------------------------------------------ drain runs
\* A set built by appending distinct values to New(), then emptied by
\* repeated Pop calls or by repeated Shift calls, one call past empty.
DrainInit ==
  /\ list = NewList(<<>>)
  /\ len = Len(NewList(<<>>))
  /\ mapping = NewMapping(<<>>)
  /\ last = NewCall(<<>>)
  /\ attempted = {}
  /\ live = {}
  /\ mode = "build"
  /\ built = <<>>
  /\ out = <<>>
  /\ procs = <<>>
  /\ heap = <<>>
  /\ doubled = {}

DrainAppend ==
  \E v \in Values :
    /\ mode = "build"
    /\ v \notin RangeOf(built)
    /\ DoAppend(v)
    /\ built' = Append(built, v)
    /\ UNCHANGED <<mode, out, procs, heap, doubled>>

DrainPop ==
  /\ mode \in {"build", "pop"}
  /\ Len(out) <= Len(built)
  /\ DoPop
  /\ mode' = "pop"
  /\ out' = Append(out, <<last'.val, last'.ok>>)
  /\ UNCHANGED <<built, procs, heap, doubled>>

DrainShift ==
  /\ mode \in {"build", "shift"}
  /\ Len(out) <= Len(built)
  /\ DoShift
  /\ mode' = "shift"
  /\ out' = Append(out, <<last'.val, last'.ok>>)
  /\ UNCHANGED <<built, procs, heap, doubled>>

DrainNext ==
  \/ DrainAppend
  \/ DrainPop
  \/ DrainShift

DrainSpec == DrainInit /\ [][DrainNext]_vars

\* ------------------------------------------------------------ read calls
\* What a visitor passed to Range/RangeReverse returns: nil or one of two
\* distinct errors.  A visitor is modelled by the value-to-result table
\* of a function that does not touch the set.
VisitorResults == {"nil", "errA", "errB"}

Visitors == [Values -> VisitorResults]

\* variant: a visitor error does not stop the loop
RECURSIVE RangeFromNoStop(_, _, _, _, _)
RangeFromNoStop(l, pos, i, loop, visits) ==
  IF pos > Len(l) THEN [visits |-> visits, err |-> "nil"]
  ELSE RangeFromNoStop(l, pos + 1, i + 1, loop,
                       Append(visits, <<i, l[pos].Value>>))

\* Range: the loop from the element at pos on, i the position counter,
\* visits the calls loop(i, value) made so far
RECURSIVE RangeFrom(_, _, _, _, _)
RangeFrom(l, pos, i, loop, visits) ==
  IF pos > Len(l) THEN [visits |-> visits, err |-> "nil"]
  ELSE LET err == loop[l[pos].Value]
           seen == Append(visits, <<i, l[pos].Value>>)
       IN IF err # "nil" THEN [visits |-> seen, err |-> err]
          ELSE RangeFrom(l, pos + 1, i + 1, loop, seen)

\* variant: the counter is the position from the front
RECURSIVE RangeReverseFromFrontIndex(_, _, _, _, _)
RangeReverseFromFrontIndex(l, pos, i, loop, visits) ==
  IF pos < 1 THEN [visits |-> visits, err |-> "nil"]
  ELSE LET err == loop[l[pos].Value]
           seen == Append(visits, <<pos - 1, l[pos].Value>>)
       IN IF err # "nil" THEN [visits |-> seen, err |-> err]
          ELSE RangeReverseFromFrontIndex(l, pos - 1, i + 1, loop, seen)

\* RangeReverse: the same loop from the back, following Prev()
RECURSIVE RangeReverseFrom(_, _, _, _, _)
RangeReverseFrom(l, pos, i, loop, visits) ==
  IF pos < 1 THEN [visits |-> visits, err |-> "nil"]
  ELSE LET err == loop[l[pos].Value]
           seen == Append(visits, <<i, l[pos].Value>>)
       IN IF err # "nil" THEN [visits |-> seen, err |-> err]
          ELSE RangeReverseFrom(l, pos - 1, i + 1, loop, seen)

\* The record of a traversal: the call record plus the visitor and the
\* calls it received.
Traversal(op, loop, res) ==
  [op |-> op, v |-> ZeroValue, mark |-> ZeroValue, after |-> FALSE,
   ok |-> FALSE, val |-> ZeroValue, err |-> res.err,
   preList |-> list, preMapping |-> mapping,
   loop |-> loop, visits |-> res.visits]

\* Range(loop)
DoRange(loop) ==
  /\ last' = Traversal("Range", loop, RangeFrom(list, 1, 0, loop, <<>>))
  /\ UNCHANGED <<list, len, mapping, attempted, live>>

\* RangeReverse(loop)
DoRangeReverse(loop) ==
  /\ last' = Traversal("RangeReverse", loop,
                       RangeReverseFrom(list, Len(list), 0, loop, <<>>))
  /\ UNCHANGED <<list, len, mapping, attempted, live>>

\* Front(): the Value of list.Front(); with no element the dereference
\* of nil panics
DoFront ==
  /\ LET e == ListFront(list)
     IN last' = IF e.id = Nil
                THEN Call("Front", ZeroValue, ZeroValue, FALSE, FALSE, ZeroValue, "panic")
                ELSE Call("Front", ZeroValue, ZeroValue, FALSE, TRUE, e.Value, "nil")
  /\ UNCHANGED <<list, len, mapping, attempted, live>>

\* Back()
DoBack ==
  /\ LET e == ListBack(list)
     IN last' = IF e.id = Nil
                THEN Call("Back", ZeroValue, ZeroValue, FALSE, FALSE, ZeroValue, "panic")
                ELSE Call("Back", ZeroValue, ZeroValue, FALSE, TRUE, e.Value, "nil")
  /\ UNCHANGED <<list, len, mapping, attempted, live>>

ReadInit ==
  \E elems \in SeqsUpTo(Values, MaxInit) :
    /\ list = NewList(elems)
    /\ len = Len(NewList(elems))
    /\ mapping = NewMapping(elems)
    /\ last = NewCall(elems)
    /\ attempted = RangeOf(elems)
    /\ live = RangeOf(elems)
    /\ mode = "read"
    /\ built = <<>>
    /\ out = <<>>
    /\ procs = <<>>
    /\ heap = <<>>
    /\ doubled = {}

RangeCall == \E loop \in Visitors : DoRange(loop) /\ UNCHANGED drainVars
RangeReverseCall == \E loop \in Visitors : DoRangeReverse(loop) /\ UNCHANGED drainVars
FrontCall == DoFront /\ UNCHANGED drainVars
BackCall == DoBack /\ UNCHANGED drainVars

ReadNext ==
  \/ RangeCall
  \/ RangeReverseCall
  \/ FrontCall
  \/ BackCall

ReadSpec == ReadInit /\ [][ReadNext]_vars

\* ----------------------------------------------------- two-caller runs
\* Two callers make Append, Prepend and Insert calls on the same set, each
\* caller one call after another.  In mode "locked" the callers hold a
\* mutex around the whole call.  In mode "racy" nothing orders them: the
\* call is a data race, and its steps are the reads and writes of shared
\* memory it makes, in program order:
\*   mark     Insert only: o.Has(mark), a map read
\*   check    o.Has(v), a map read
\*   get      Insert only: o.mapping[mark], a map read
\*   push     PushBack: at := l.root.prev; PushFront: at := &l.root (for
\*            both, lazyInit finds l.root.next set);
\*            InsertAfter: mark.list, at := mark; InsertBefore: mark.list,
\*            at := mark.prev; then e := &Element{Value: v}; e.prev = at
\*   next     e.next = at.next
\*   link     e.prev.next = e
\*   back     e.next.prev = e
\*   own      e.list = l
\*   count    the read of l.len in l.len++
\*   bump     the write of l.len in l.len++
\*   store    o.mapping[v] = e begins
\*   storing  o.mapping[v] = e ends; return true
\* heap is the memory of the list: heap[e] holds the fields of element e
\* and heap[Nil] those of l.root, Nil standing for the root where an
\* element pointer is expected.  The list variable is what a traversal
\* from l.root.next along Next() goes through.  The runtime may end the program when it finds
\* a map access concurrent with a map write ("fatal error: concurrent map
\* writes" / "concurrent map read and map write"); a concurrent access it
\* does not find has any outcome.  Once accesses of the two callers have
\* run concurrently the calls in progress run to their end and no further
\* call is followed.
Threads == {1, 2}

Other(t) == CHOOSE u \in Threads : u # t

AtRest(t) == procs[t].pc \in {"idle", "done"}

\* between the first and the last access of a call to the list's memory
InPush(t) == procs[t].pc \in {"next", "link", "back", "own", "count", "bump"}

\* between the beginning and the end of a map write
InStore(t) == procs[t].pc = "storing"

Idle == [pc |-> "idle", op |-> "none", v |-> ZeroValue, mark |-> ZeroValue,
         after |-> FALSE, markElem |-> Nil, elem |-> Nil, at |-> Nil, r |-> 0,
         ok |-> FALSE, err |-> "nil", early |-> FALSE, raced |-> FALSE,
         overlap |-> FALSE, calls |-> 0]

\* the memory of a well-formed list
HeapOf(l) ==
  [e \in {Nil} \cup {l[i].id : i \in 1..Len(l)} |->
     IF e = Nil
     THEN [next |-> ListFront(l).id, prev |-> ListBack(l).id,
           Value |-> ZeroValue, list |-> TRUE]
     ELSE [next |-> IF IndexOf(l, e) = Len(l) THEN Nil ELSE l[IndexOf(l, e) + 1].id,
           prev |-> IF IndexOf(l, e) = 1 THEN Nil ELSE l[IndexOf(l, e) - 1].id,
           Value |-> l[IndexOf(l, e)].Value, list |-> TRUE]]

\* the elements from e on that e.Next() leads through, at most k of them:
\* Next() is nil at the root and for an element whose list field is not set
RECURSIVE ChainFrom(_, _, _)
ChainFrom(h, e, k) ==
  IF e = Nil \/ k = 0 THEN <<>>
  ELSE IF ~h[e].list THEN <<Elem(e, h[e].Value)>>
  ELSE <<Elem(e, h[e].Value)>> \o ChainFrom(h, h[e].next, k - 1)

\* for elem := l.root.next; elem != nil; elem = elem.Next()
Chain(h) == ChainFrom(h, h[Nil].next, Cardinality(DOMAIN h))

\* variant: nothing is linked when the chain already holds the value
LinkAtOnce(h, at, e) ==
  IF \E i \in 1..Len(Chain(h)) : Chain(h)[i].Value = h[e].Value
  THEN h
  ELSE [h EXCEPT ![at].next = e]

\* at.next = e
LinkAt(h, at, e) == [h EXCEPT ![at].next = e]

\* the call returns: what is kept of it is its arguments, its results
\* and how it ran
Return(p, ok, err) ==
  [Idle EXCEPT !.pc = "done", !.op = p.op, !.v = p.v, !.mark = p.mark,
               !.after = p.after, !.ok = ok, !.err = err, !.early = p.early,
               !.raced = p.raced, !.calls = p.calls]

\* the program ends: no call returns
Fatal == [t \in Threads |-> [procs[t] EXCEPT !.pc = "fatal"]]

\* both callers marked as having raced
Raced(ps) == [t \in Threads |-> [ps[t] EXCEPT !.raced = TRUE]]

\* both callers' map writes marked as having run concurrently
Overlapped(ps) == [t \in Threads |-> [ps[t] EXCEPT !.raced = TRUE, !.overlap = TRUE]]

ConcInit ==
  \E elems \in SeqsUpTo(ConcValues, MaxConc), m \in {"racy", "locked"} :
    /\ list = NewList(elems)
    /\ len = Len(NewList(elems))
    /\ mapping = NewMapping(elems)
    /\ last = NewCall(elems)
    /\ attempted = RangeOf(elems)
    /\ live = RangeOf(elems)
    /\ mode = m
    /\ built = <<>>
    /\ out = <<>>
    /\ procs = [t \in Threads |-> Idle]
    /\ heap = HeapOf(NewList(elems))
    /\ doubled = {}

\* the call is entered (under the mutex, when there is one); the other
\* caller's call in progress has its check before any push of this one
ConcBegin(t) ==
  \E op \in {"Append", "Prepend", "Insert"}, v \in ConcValues,
     mark \in ConcValues, after \in BOOLEAN :
    /\ op # "Insert" => (mark = ZeroValue /\ after = FALSE)
    /\ AtRest(t)
    /\ procs[t].calls < MaxCalls
    /\ \A u \in Threads : ~procs[u].raced
    /\ mode = "locked" => AtRest(Other(t))
    /\ procs' = [u \in Threads |->
         IF u = t
         THEN [Idle EXCEPT !.pc = IF op = "Insert" THEN "mark" ELSE "check",
                           !.op = op, !.v = v, !.mark = mark, !.after = after,
                           !.calls = procs[t].calls + 1]
         ELSE IF AtRest(u) THEN procs[u]
         ELSE [procs[u] EXCEPT !.early = TRUE]]
    /\ attempted' = attempted \cup {v}
    /\ UNCHANGED <<list, len, mapping, last, live, mode, built, out, heap, doubled>>

\* if !o.Has(mark) { return false, ErrMarkNotFound }: alone, the map read
\* finds what the map holds; concurrent with the other caller's map write
\* it finds the key, misses it, or the runtime ends the program
ConcHasMark(t) ==
  /\ procs[t].pc = "mark"
  /\ \E found \in BOOLEAN, fatal \in BOOLEAN :
       /\ ~InStore(Other(t)) => (~fatal /\ found = Has(procs[t].mark))
       /\ procs' =
            IF fatal THEN Fatal
            ELSE LET ps == [procs EXCEPT ![t] =
                              IF found
                              THEN [@ EXCEPT !.pc = "check"]
                              ELSE Return(@, FALSE, "ErrMarkNotFound")]
                 IN IF InStore(Other(t)) THEN Raced(ps) ELSE ps
  /\ UNCHANGED <<list, len, mapping, last, attempted, live, mode, built, out, heap, doubled>>

\* if o.Has(v) { return false }: a map read as the one of mark
ConcCheck(t) ==
  /\ procs[t].pc = "check"
  /\ \E found \in BOOLEAN, fatal \in BOOLEAN :
       /\ ~InStore(Other(t)) => (~fatal /\ found = Has(procs[t].v))
       /\ procs' =
            IF fatal THEN Fatal
            ELSE LET ps == [procs EXCEPT ![t] =
                              IF found
                              THEN Return(@, FALSE, "nil")
                              ELSE [@ EXCEPT !.pc = IF procs[t].op = "Insert"
                                                    THEN "get" ELSE "push",
                                     !.early = procs[Other(t)].pc \in
                                       {"idle", "done", "mark", "check", "get", "push"}]]
                 IN IF InStore(Other(t)) THEN Raced(ps) ELSE ps
  /\ UNCHANGED <<list, len, mapping, last, attempted, live, mode, built, out, heap, doubled>>

\* o.mapping[mark], the argument of InsertAfter/InsertBefore: alone, the
\* read gives the entry, or nil when there is none; concurrent with the
\* other caller's map write it gives the entry, the entry being written,
\* nil, or the runtime ends the program
ConcGet(t) ==
  /\ procs[t].pc = "get"
  /\ \E e \in {MapGet(mapping, procs[t].mark)} \cup
              (IF InStore(Other(t))
               THEN {Nil} \cup (IF procs[Other(t)].v = procs[t].mark
                                THEN {procs[Other(t)].elem} ELSE {})
               ELSE {}),
        fatal \in BOOLEAN :
       /\ ~InStore(Other(t)) => ~fatal
       /\ procs' =
            IF fatal THEN Fatal
            ELSE LET ps == [procs EXCEPT ![t] = [@ EXCEPT !.pc = "push", !.markElem = e]]
                 IN IF InStore(Other(t)) THEN Raced(ps) ELSE ps
  /\ UNCHANGED <<list, len, mapping, last, attempted, live, mode, built, out, heap, doubled>>

\* PushBack/PushFront/InsertAfter/InsertBefore up to insert's e.prev = at.
\* A nil mark is a nil dereference at mark.list: the panic ends the
\* program.  A mark of no list makes InsertAfter/InsertBefore return nil,
\* which is what the call then stores.
ConcPush(t) ==
  /\ procs[t].pc = "push"
  /\ LET p == procs[t]
         fresh == CHOOSE e \in 1..Cardinality(DOMAIN heap) :
                    e \notin DOMAIN heap /\ \A f \in 1..(e - 1) : f \in DOMAIN heap
         at == IF p.op = "Append" THEN heap[Nil].prev
               ELSE IF p.op = "Prepend" THEN Nil
               ELSE IF p.after THEN p.markElem
               ELSE heap[p.markElem].prev
         ps == [procs EXCEPT ![t] = [@ EXCEPT !.pc = "next", !.elem = fresh, !.at = at]]
     IN IF p.op = "Insert" /\ p.markElem = Nil
        THEN procs' = Fatal /\ heap' = heap
        ELSE IF p.op = "Insert" /\ ~heap[p.markElem].list
        THEN /\ procs' = [procs EXCEPT ![t] = [@ EXCEPT !.pc = "store", !.elem = Nil]]
             /\ heap' = heap
        ELSE /\ procs' = IF InPush(Other(t)) THEN Raced(ps) ELSE ps
             /\ heap' = [e \in DOMAIN heap \cup {fresh} |->
                           IF e = fresh
                           THEN [next |-> Nil, prev |-> at, Value |-> p.v, list |-> FALSE]
                           ELSE heap[e]]
  /\ UNCHANGED <<list, len, mapping, last, attempted, live, mode, built, out, doubled>>

\* e.next = at.next
ConcNextPtr(t) ==
  /\ procs[t].pc = "next"
  /\ heap' = [heap EXCEPT ![procs[t].elem].next = heap[procs[t].at].next]
  /\ procs' = [procs EXCEPT ![t] = [@ EXCEPT !.pc = "link"]]
  /\ UNCHANGED <<list, len, mapping, last, attempted, live, mode, built, out, doubled>>

\* e.prev.next = e
ConcLink(t) ==
  /\ procs[t].pc = "link"
  /\ heap' = LinkAt(heap, heap[procs[t].elem].prev, procs[t].elem)
  /\ list' = Chain(heap')
  /\ procs' = [procs EXCEPT ![t] = [@ EXCEPT !.pc = "back"]]
  /\ UNCHANGED <<len, mapping, last, attempted, live, mode, built, out, doubled>>

\* e.next.prev = e
ConcBack(t) ==
  /\ procs[t].pc = "back"
  /\ heap' = [heap EXCEPT ![heap[procs[t].elem].next].prev = procs[t].elem]
  /\ procs' = [procs EXCEPT ![t] = [@ EXCEPT !.pc = "own"]]
  /\ UNCHANGED <<list, len, mapping, last, attempted, live, mode, built, out, doubled>>

\* e.list = l
ConcOwn(t) ==
  /\ procs[t].pc = "own"
  /\ heap' = [heap EXCEPT ![procs[t].elem].list = TRUE]
  /\ list' = Chain(heap')
  /\ procs' = [procs EXCEPT ![t] = [@ EXCEPT !.pc = "count"]]
  /\ UNCHANGED <<len, mapping, last, attempted, live, mode, built, out, doubled>>

\* l.len++, the read
ConcCount(t) ==
  /\ procs[t].pc = "count"
  /\ procs' = [procs EXCEPT ![t] = [@ EXCEPT !.pc = "bump", !.r = len]]
  /\ UNCHANGED <<list, len, mapping, last, attempted, live, mode, built, out, heap, doubled>>

\* l.len++, the write
ConcBump(t) ==
  /\ procs[t].pc = "bump"
  /\ len' = procs[t].r + 1
  /\ procs' = [procs EXCEPT ![t] = [@ EXCEPT !.pc = "store"]]
  /\ UNCHANGED <<list, mapping, last, attempted, live, mode, built, out, heap, doubled>>

\* o.mapping[v] = e begins; with the other caller's map write under way the
\* runtime ends the program or does not notice
ConcStoreBegin(t) ==
  /\ procs[t].pc = "store"
  /\ \E fatal \in BOOLEAN :
       /\ ~InStore(Other(t)) => ~fatal
       /\ procs' =
            IF fatal THEN Fatal
            ELSE LET ps == [procs EXCEPT ![t] = [@ EXCEPT !.pc = "storing"]]
                 IN IF InStore(Other(t)) THEN Overlapped(ps) ELSE ps
  /\ UNCHANGED <<list, len, mapping, last, attempted, live, mode, built, out, heap, doubled>>

\* the names of the calls that have so far come in a pair returning true
\* for one value, each having run its check before the other's push
Doubled(t) ==
  IF /\ procs[Other(t)].pc = "done" /\ procs[Other(t)].ok
     /\ procs[Other(t)].v = procs[t].v
     /\ procs[t].early /\ procs[Other(t)].early
  THEN doubled \cup {procs[t].op, procs[Other(t)].op}
  ELSE doubled

\* o.mapping[v] = e ends; return true.  A write that ran alone stores the
\* entry; one that ran concurrently with the other caller's write stores
\* it, loses it, or the runtime ends the program
ConcStore(t) ==
  /\ procs[t].pc = "storing"
  /\ \E stored \in BOOLEAN, fatal \in BOOLEAN :
       /\ ~procs[t].overlap => (stored /\ ~fatal)
       /\ mapping' = IF stored /\ ~fatal
                     THEN MapSet(mapping, procs[t].v, procs[t].elem)
                     ELSE mapping
       /\ live' = IF fatal THEN live ELSE live \cup {procs[t].v}
       /\ procs' = IF fatal THEN Fatal
                   ELSE [procs EXCEPT ![t] = Return(@, TRUE, "nil")]
       /\ doubled' = IF fatal THEN doubled ELSE Doubled(t)
  /\ UNCHANGED <<list, len, last, attempted, mode, built, out, heap>>

ConcBeginStep == \E t \in Threads : ConcBegin(t)
ConcHasMarkStep == \E t \in Threads : ConcHasMark(t)
ConcCheckStep == \E t \in Threads : ConcCheck(t)
ConcGetStep == \E t \in Threads : ConcGet(t)
ConcPushStep == \E t \in Threads : ConcPush(t)
ConcNextPtrStep == \E t \in Threads : ConcNextPtr(t)
ConcLinkStep == \E t \in Threads : ConcLink(t)
ConcBackStep == \E t \in Threads : ConcBack(t)
ConcOwnStep == \E t \in Threads : ConcOwn(t)
ConcCountStep == \E t \in Threads : ConcCount(t)
ConcBumpStep == \E t \in Threads : ConcBump(t)
ConcStoreBeginStep == \E t \in Threads : ConcStoreBegin(t)
ConcStoreStep == \E t \in Threads : ConcStore(t)

ConcNext ==
  \/ ConcBeginStep
  \/ ConcHasMarkStep
  \/ ConcCheckStep
  \/ ConcGetStep
  \/ ConcPushStep
  \/ ConcNextPtrStep
  \/ ConcLinkStep
  \/ ConcBackStep
  \/ ConcOwnStep
  \/ ConcCountStep
  \/ ConcBumpStep
  \/ ConcStoreBeginStep
  \/ ConcStoreStep

ConcSpec == ConcInit /\ [][ConcNext]_vars

\* ----------------------------------------------------------- call pairs
\* Two calls in a row on a set made by New: a Remove, Append or Prepend,
\* then an Insert, Pop or Shift; out holds the records of the two calls.
PairInit ==
  \E elems \in SeqsUpTo(Values, MaxInit) :
    /\ list = NewList(elems)
    /\ len = Len(NewList(elems))
    /\ mapping = NewMapping(elems)
    /\ last = NewCall(elems)
    /\ attempted = RangeOf(elems)
    /\ live = RangeOf(elems)
    /\ mode = "pair"
    /\ built = <<>>
    /\ out = <<>>
    /\ procs = <<>>
    /\ heap = <<>>
    /\ doubled = {}

PairRemove ==
  \E v \in Values :
    /\ Len(out) = 0
    /\ DoRemove(v)
    /\ out' = <<last'>>
    /\ UNCHANGED <<mode, built, procs, heap, doubled>>

PairAppend ==
  \E v \in Values :
    /\ Len(out) = 0
    /\ DoAppend(v)
    /\ out' = <<last'>>
    /\ UNCHANGED <<mode, built, procs, heap, doubled>>

PairPrepend ==
  \E v \in Values :
    /\ Len(out) = 0
    /\ DoPrepend(v)
    /\ out' = <<last'>>
    /\ UNCHANGED <<mode, built, procs, heap, doubled>>

PairInsert ==
  \E v \in Values, mark \in Values, after \in BOOLEAN :
    /\ Len(out) = 1
    /\ DoInsert(v, mark, after)
    /\ out' = Append(out, last')
    /\ UNCHANGED <<mode, built, procs, heap, doubled>>

PairPop ==
  /\ Len(out) = 1
  /\ DoPop
  /\ out' = Append(out, last')
  /\ UNCHANGED <<mode, built, procs, heap, doubled>>

PairShift ==
  /\ Len(out) = 1
  /\ DoShift
  /\ out' = Append(out, last')
  /\ UNCHANGED <<mode, built, procs, heap, doubled>>

PairNext ==
  \/ PairRemove
  \/ PairAppend
  \/ PairPrepend
  \/ PairInsert
  \/ PairPop
  \/ PairShift

PairSpec == PairInit /\ [][PairNext]_vars

\* ------------------------------------------------------------- load runs
\* An empty set loaded by Append calls with arbitrary values, repeats
\* included; built is the list of values passed so far.
LoadInit ==
  /\ list = NewList(<<>>)
  /\ len = Len(NewList(<<>>))
  /\ mapping = NewMapping(<<>>)
  /\ last = NewCall(<<>>)
  /\ attempted = {}
  /\ live = {}
  /\ mode = "load"
  /\ built = <<>>
  /\ out = <<>>
  /\ procs = <<>>
  /\ heap = <<>>
  /\ doubled = {}

LoadAppend ==
  \E v \in Values :
    /\ mode = "load"
    /\ Len(built) < MaxInit
    /\ DoAppend(v)
    /\ built' = Append(built, v)
    /\ UNCHANGED <<mode, out, procs, heap, doubled>>

LoadNext == LoadAppend

LoadSpec == LoadInit /\ [][LoadNext]_vars

\* ------------------------------------------------------------ properties
\* Slice() and the member set as they were when the last call started.
PreSlice == SliceOf(last.preList)

PreMembers == DOMAIN last.preMapping

\* C1: after any sequence of calls the values for which Has is true are
\* exactly the values of a front-to-back traversal, no value is traversed
\* twice, Len() is the number of index entries, and every index entry points
\* at the list element that holds its key.
C1_IndexSequenceBijection ==
  /\ {v \in Values : Has(v)} = RangeOf(Slice)
  /\ \A i, j \in 1..Len(Slice) : Slice[i] = Slice[j] => i = j
  /\ Len_ = Cardinality(DOMAIN mapping)
  /\ \A v \in DOMAIN mapping :
       \E i \in 1..Len(list) : list[i].id = mapping[v] /\ list[i].Value = v

C1_Witness ==
  /\ last.op = "Pop"
  /\ last.ok
  /\ Len_ >= 2
  /\ last.val \in attempted

\* C2: Len() never exceeds the number of distinct values passed as the value
\* of Append, Prepend, Insert or New, and Has(v) holds exactly for the values
\* reported added and not since reported removed.
C2_Uniqueness ==
  /\ Len_ <= Cardinality(attempted)
  /\ \A v \in Values : Has(v) <=> v \in live

C2_Witness ==
  /\ last.op = "Remove"
  /\ last.ok
  /\ last.v \in attempted
  /\ ~Has(last.v)
  /\ Len_ >= 1
  /\ Len_ < Cardinality(attempted)

\* C3: Insert and Move with a mark that is not a member return
\* ErrMarkNotFound (Insert with added = false) and change neither the list
\* nor the index, whether or not v is a member.
C3_MarkNotFoundNoOp ==
  (last.op \in {"Insert", "Move"} /\ last.mark \notin PreMembers) =>
    /\ last.err = "ErrMarkNotFound"
    /\ ~last.ok
    /\ list = last.preList
    /\ mapping = last.preMapping

C3_Witness ==
  /\ last.op = "Insert"
  /\ last.mark \notin PreMembers
  /\ last.v \in PreMembers
  /\ last.err = "ErrMarkNotFound"
  /\ Len_ >= 2

\* C4: Insert of a non-member v at a member mark returns (true, nil) and the
\* sequence is the prior one with v right after mark (after) or right before
\* mark (not after); Len() grows by one and v becomes a member.
C4_InsertPlacesAtMark ==
  (last.op = "Insert" /\ last.mark \in PreMembers /\ last.v \notin PreMembers) =>
    /\ last.ok
    /\ last.err = "nil"
    /\ Len_ = Len(PreSlice) + 1
    /\ DOMAIN mapping = PreMembers \cup {last.v}
    /\ \E i \in 1..Len(PreSlice) :
         /\ PreSlice[i] = last.mark
         /\ Slice = IF last.after
                    THEN SubSeq(PreSlice, 1, i) \o <<last.v>>
                           \o SubSeq(PreSlice, i + 1, Len(PreSlice))
                    ELSE SubSeq(PreSlice, 1, i - 1) \o <<last.v>>
                           \o SubSeq(PreSlice, i, Len(PreSlice))

C4_Witness ==
  /\ last.op = "Insert"
  /\ last.ok
  /\ ~last.after
  /\ Len(PreSlice) >= 2
  /\ PreSlice[2] = last.mark
  /\ Slice[2] = last.v

\* C5: Insert with v and mark both members returns (false, nil) and changes
\* neither the list nor the index.
C5_InsertNeverRepositions ==
  (last.op = "Insert" /\ last.mark \in PreMembers /\ last.v \in PreMembers) =>
    /\ ~last.ok
    /\ last.err = "nil"
    /\ list = last.preList
    /\ mapping = last.preMapping

C5_Witness ==
  /\ last.op = "Insert"
  /\ last.mark \in PreMembers
  /\ last.v \in PreMembers
  /\ last.v # last.mark
  /\ last.after
  /\ Len(PreSlice) >= 3
  /\ PreSlice[1] = last.v
  /\ PreSlice[3] = last.mark

\* C6: Move of a member v to a distinct member mark returns nil; v ends up
\* right after mark (after) or right before mark (not after), the members
\* and Len() are unchanged and the other elements keep their relative order.
C6_MoveRelinksAtMark ==
  (last.op = "Move" /\ last.mark \in PreMembers /\ last.v \in PreMembers
     /\ last.v # last.mark) =>
    LET rest == SelectSeq(PreSlice, LAMBDA x : x # last.v)
    IN /\ last.err = "nil"
       /\ DOMAIN mapping = PreMembers
       /\ Len_ = Len(PreSlice)
       /\ SelectSeq(Slice, LAMBDA x : x # last.v) = rest
       /\ \E i \in 1..Len(rest) :
            /\ rest[i] = last.mark
            /\ Slice = IF last.after
                       THEN SubSeq(rest, 1, i) \o <<last.v>>
                              \o SubSeq(rest, i + 1, Len(rest))
                       ELSE SubSeq(rest, 1, i - 1) \o <<last.v>>
                              \o SubSeq(rest, i, Len(rest))

C6_Witness ==
  /\ last.op = "Move"
  /\ last.err = "nil"
  /\ last.after
  /\ last.v # last.mark
  /\ Len(PreSlice) >= 3
  /\ PreSlice[1] = last.v
  /\ PreSlice[3] = last.mark
  /\ Slice[3] = last.v

\* C7: Remove(v) returns true exactly when v was a member; then the sequence
\* is the prior one with v deleted, Has(v) is false and Len() is one less;
\* otherwise the list and the index are unchanged.
C7_RemoveKeepsOrder ==
  last.op = "Remove" =>
    /\ last.ok <=> last.v \in PreMembers
    /\ last.ok =>
         /\ Slice = SelectSeq(PreSlice, LAMBDA x : x # last.v)
         /\ ~Has(last.v)
         /\ DOMAIN mapping = PreMembers \ {last.v}
         /\ Len_ = Len(PreSlice) - 1
    /\ ~last.ok =>
         /\ list = last.preList
         /\ mapping = last.preMapping

C7_Witness ==
  /\ last.op = "Remove"
  /\ last.ok
  /\ Len(PreSlice) >= 3
  /\ PreSlice[2] = last.v
  /\ Len_ = 2

\* C8: Append and Prepend of a value that is already a member return false
\* and leave Slice() as it was.
C8_DuplicateAppendPrependNoOp ==
  (last.op \in {"Append", "Prepend"} /\ last.v \in PreMembers) =>
    /\ ~last.ok
    /\ Slice = PreSlice
    /\ Len_ = Len(PreSlice)

C8_Witness ==
  /\ last.op = "Append"
  /\ last.v \in PreMembers
  /\ Len(PreSlice) >= 2
  /\ PreSlice[1] = last.v

\* C9: Append of a non-member returns true and yields the prior sequence
\* followed by v, so Back() is v; Prepend of a non-member returns true and
\* yields v followed by the prior sequence, so Front() is v; Len() grows by
\* one either way.
C9_AppendPrependAtEnds ==
  /\ (last.op = "Append" /\ last.v \notin PreMembers) =>
       /\ last.ok
       /\ Slice = PreSlice \o <<last.v>>
       /\ Back = last.v
       /\ Len_ = Len(PreSlice) + 1
  /\ (last.op = "Prepend" /\ last.v \notin PreMembers) =>
       /\ last.ok
       /\ Slice = <<last.v>> \o PreSlice
       /\ Front = last.v
       /\ Len_ = Len(PreSlice) + 1

C9_Witness ==
  /\ last.op = "Prepend"
  /\ last.ok
  /\ Len(PreSlice) >= 2
  /\ Front = last.v
  /\ Back # last.v

\* C10: for a set built by appending distinct v1..vn, the k-th of the
\* repeated Pop calls returns (v(n+1-k), true) and the k-th of the repeated
\* Shift calls returns (vk, true); each call removes exactly the returned
\* value from the list and the index, and the call on the emptied set
\* returns (zero value, false) and leaves the set empty.
C10_PopShiftDuality ==
  LET n == Len(built)
      k == IF Len(out) < n THEN Len(out) ELSE n
  IN /\ mode = "pop" =>
          /\ \A j \in 1..Len(out) :
               out[j] = IF j <= n THEN <<built[n + 1 - j], TRUE>>
                                  ELSE <<ZeroValue, FALSE>>
          /\ Slice = SubSeq(built, 1, n - k)
     /\ mode = "shift" =>
          /\ \A j \in 1..Len(out) :
               out[j] = IF j <= n THEN <<built[j], TRUE>>
                                  ELSE <<ZeroValue, FALSE>>
          /\ Slice = SubSeq(built, k + 1, n)
     /\ Len_ = n - k
     /\ DOMAIN mapping = RangeOf(Slice)

C10_Witness ==
  /\ mode = "pop"
  /\ Len(built) >= 3
  /\ Len(out) = Len(built) + 1
  /\ out[1] = <<built[Len(built)], TRUE>>
  /\ out[Len(out)] = <<ZeroValue, FALSE>>
  /\ Len_ = 0

\* C11: New(e1, ..., en) yields the input with every occurrence of a value
\* after its first dropped, first occurrences in input order, and this is
\* the set that Append(e1), ..., Append(en) build from the empty set.
C11_NewKeepsFirstOccurrences ==
  mode = "load" =>
    LET made == SliceOf(NewList(built))
        first(x) == CHOOSE i \in 1..Len(built) :
                      built[i] = x /\ \A j \in 1..(i - 1) : built[j] # x
    IN /\ RangeOf(made) = RangeOf(built)
       /\ \A a, b \in 1..Len(made) : a < b => first(made[a]) < first(made[b])
       /\ DOMAIN NewMapping(built) = RangeOf(built)
       /\ Slice = made
       /\ DOMAIN mapping = DOMAIN NewMapping(built)

C11_Witness ==
  /\ mode = "load"
  /\ Len(built) >= 4
  /\ built[1] = built[3]
  /\ built[2] = built[4]
  /\ built[1] # built[2]
  /\ ~last.ok
  /\ Slice = <<built[1], built[2]>>
  /\ SliceOf(NewList(built)) = Slice

\* C13: Move with mark a member and v not a member returns nil, does not
\* add v, and changes neither the list nor the index.
C13_MoveOfNonMemberNoOp ==
  (last.op = "Move" /\ last.mark \in PreMembers /\ last.v \notin PreMembers) =>
    /\ last.err = "nil"
    /\ ~Has(last.v)
    /\ list = last.preList
    /\ mapping = last.preMapping

C13_Witness ==
  /\ last.op = "Move"
  /\ last.mark \in PreMembers
  /\ last.v \notin PreMembers
  /\ last.err = "nil"
  /\ Len(PreSlice) >= 2
  /\ PreSlice[2] = last.mark
  /\ Slice = PreSlice

\* C14: Move(v, v, after) for a member v returns nil and changes nothing:
\* the order, Len() and the index stay as they were and the index still
\* matches the sequence.
C14_MoveRelativeToItselfNoOp ==
  (last.op = "Move" /\ last.v = last.mark /\ last.v \in PreMembers) =>
    /\ last.err = "nil"
    /\ Slice = PreSlice
    /\ Len_ = Len(PreSlice)
    /\ list = last.preList
    /\ mapping = last.preMapping
    /\ {v \in Values : Has(v)} = RangeOf(Slice)
    /\ Len_ = Cardinality(DOMAIN mapping)
    /\ \A v \in DOMAIN mapping :
         \E i \in 1..Len(list) : list[i].id = mapping[v] /\ list[i].Value = v

C14_Witness ==
  /\ last.op = "Move"
  /\ last.v = last.mark
  /\ last.v \in PreMembers
  /\ ~last.after
  /\ Len(PreSlice) >= 3
  /\ PreSlice[2] = last.v
  /\ Slice[2] = last.v

\* C12: Range calls the visitor with (i, value) for the members front to
\* back, i being the position in Slice(); it stops at the first call that
\* returns an error and returns that error; with no error it makes Len()
\* calls and returns nil.  The set is left unchanged.
C12_RangeFrontToBack ==
  last.op = "Range" =>
    LET s == Slice
        stops == {k \in 1..Len(s) : last.loop[s[k]] # "nil"}
        n == IF stops = {} THEN Len(s)
             ELSE CHOOSE k \in stops : \A j \in stops : k <= j
    IN /\ last.visits = [k \in 1..n |-> <<k - 1, s[k]>>]
       /\ last.err = IF stops = {} THEN "nil" ELSE last.loop[s[n]]
       /\ stops = {} => Len(last.visits) = Len_
       /\ list = last.preList
       /\ mapping = last.preMapping

C12_Witness ==
  /\ last.op = "Range"
  /\ Len_ >= 3
  /\ last.loop[Slice[1]] = "nil"
  /\ last.loop[Slice[2]] = "errA"
  /\ last.loop[Slice[3]] = "errB"
  /\ last.err = "errA"
  /\ last.visits = <<<<0, Slice[1]>>, <<1, Slice[2]>>>>

\* C15: RangeReverse calls the visitor back to front, the k-th call
\* (k = 0, 1, ...) with (k, Slice()[Len()-1-k]); it stops at the first call
\* that returns an error and returns that error; with no error it makes
\* Len() calls and returns nil.
C15_RangeReverseBackToFront ==
  last.op = "RangeReverse" =>
    LET s == Slice
        at(k) == s[Len(s) + 1 - k]
        stops == {k \in 1..Len(s) : last.loop[at(k)] # "nil"}
        n == IF stops = {} THEN Len(s)
             ELSE CHOOSE k \in stops : \A j \in stops : k <= j
    IN /\ last.visits = [k \in 1..n |-> <<k - 1, at(k)>>]
       /\ last.err = IF stops = {} THEN "nil" ELSE last.loop[at(n)]
       /\ stops = {} => Len(last.visits) = Len_
       /\ list = last.preList
       /\ mapping = last.preMapping

C15_Witness ==
  /\ last.op = "RangeReverse"
  /\ Len_ >= 3
  /\ last.loop[Slice[3]] = "nil"
  /\ last.loop[Slice[2]] = "errB"
  /\ last.loop[Slice[1]] = "errA"
  /\ last.err = "errB"
  /\ last.visits = <<<<0, Slice[3]>>, <<1, Slice[2]>>>>

\* C16: on a non-empty set Front() returns Slice()[0] and Back() returns
\* Slice()[Len()-1]; on an empty set both fault on the nil element; neither
\* changes the set.
C16_FrontBackNoGuard ==
  last.op \in {"Front", "Back"} =>
    /\ list = last.preList
    /\ mapping = last.preMapping
    /\ Len_ > 0 =>
         /\ last.err = "nil"
         /\ last.val = IF last.op = "Front" THEN Slice[1] ELSE Slice[Len_]
    /\ Len_ = 0 => last.err = "panic"

C16_Witness ==
  /\ last.op = "Front"
  /\ Len_ = 0
  /\ last.err = "panic"

\* C17: without mutual exclusion two adding calls (Append, Prepend or
\* Insert) for the same non-member value can both pass the membership
\* check before either pushes; a state is then reachable (C17_Witness) in
\* which the list holds the value in two elements while the index has one
\* entry for it, so that Len() differs from the index size.  Whenever both
\* callers' last calls have returned true for the same value and none of
\* the callers' memory accesses ran concurrently, that is the state they
\* leave.  With each call run under a mutex the state is unreachable:
\* whenever no call is in progress the index and the list agree, no value
\* is held twice, and the two calls never both report the value added.
C17_UnsynchronizedDuplicates ==
  LET bothAdded == /\ \A t \in Threads : procs[t].pc = "done" /\ procs[t].ok
                   /\ procs[1].v = procs[2].v
      holders(v) == {i \in 1..Len(list) : list[i].Value = v}
      twice == {v \in ConcValues : Cardinality(holders(v)) = 2}
      duplicated == \E i, j \in 1..Len(list) : i # j /\ list[i].Value = list[j].Value
  IN /\ (mode = "racy" /\ bothAdded /\ \A t \in Threads : ~procs[t].raced) =>
          /\ Cardinality(holders(procs[1].v)) = 2
          /\ procs[1].v \in DOMAIN mapping
          /\ \E i \in holders(procs[1].v) : list[i].id = mapping[procs[1].v]
          /\ Len_ = Len(list)
          /\ Len_ = Cardinality(DOMAIN mapping) + Cardinality(twice)
          /\ Len_ # Cardinality(DOMAIN mapping)
          /\ (\A t \in Threads : procs[t].early) =>
               {procs[1].op, procs[2].op} \subseteq doubled
     /\ (mode = "locked" /\ \A t \in Threads : AtRest(t)) =>
          /\ ~bothAdded
          /\ ~duplicated
          /\ doubled = {}
          /\ {v \in ConcValues : Has(v)} = {list[i].Value : i \in 1..Len(list)}
          /\ Len_ = Len(list)
          /\ Len_ = Cardinality(DOMAIN mapping)

C17_Witness ==
  LET holders(v) == {i \in 1..Len(list) : list[i].Value = v}
  IN /\ mode = "racy"
     /\ doubled = {"Append", "Prepend", "Insert"}
     /\ \A t \in Threads :
          /\ procs[t].pc = "done"
          /\ procs[t].ok
          /\ procs[t].early
          /\ ~procs[t].raced
     /\ procs[1].v = procs[2].v
     /\ Cardinality(holders(procs[1].v)) = 2
     /\ Cardinality({k \in DOMAIN mapping : k = procs[1].v}) = 1
     /\ Len_ = Len(list)
     /\ Len_ # Cardinality(DOMAIN mapping)

\* C18: for distinct members v and mark, Remove(v) followed by
\* Insert(v, mark, after) leaves the same Slice(), members and Len() as
\* Move(v, mark, after) does from the same starting set.
C18_MoveIsRemoveThenInsert ==
  (/\ Len(out) = 2
   /\ out[1].op = "Remove"
   /\ out[2].op = "Insert"
   /\ out[2].v = out[1].v
   /\ out[1].v \in DOMAIN out[1].preMapping
   /\ out[2].mark \in DOMAIN out[1].preMapping
   /\ out[2].mark # out[1].v) =>
    LET moved == MoveList(out[1].preList, out[1].preMapping,
                          out[2].v, out[2].mark, out[2].after)
    IN /\ Slice = SliceOf(moved)
       /\ Len_ = Len(moved)
       /\ DOMAIN mapping = DOMAIN out[1].preMapping

C18_Witness ==
  /\ Len(out) = 2
  /\ out[1].op = "Remove"
  /\ out[1].ok
  /\ out[2].op = "Insert"
  /\ out[2].ok
  /\ out[2].v = out[1].v
  /\ out[2].after
  /\ Len(out[1].preList) >= 3
  /\ out[1].preList[1].Value = out[1].v
  /\ out[1].preList[2].Value = out[2].mark
  /\ Slice[2] = out[1].v

\* C19: for a non-member v, Append(v) then Pop() returns (v, true) and
\* restores the prior Slice() and members; Prepend(v) then Shift() does the
\* same; Append(v) then Shift() returns v only when the set was empty
\* before.
C19_RoundTripAtTheEnds ==
  (Len(out) = 2 /\ out[1].op \in {"Append", "Prepend"} /\ out[1].ok) =>
    LET restored == /\ out[2].ok
                    /\ out[2].val = out[1].v
                    /\ Slice = SliceOf(out[1].preList)
                    /\ DOMAIN mapping = DOMAIN out[1].preMapping
    IN /\ (out[1].op = "Append" /\ out[2].op = "Pop") => restored
       /\ (out[1].op = "Prepend" /\ out[2].op = "Shift") => restored
       /\ (out[1].op = "Append" /\ out[2].op = "Shift"
             /\ out[2].ok /\ out[2].val = out[1].v) =>
            Len(out[1].preList) = 0

C19_Witness ==
  /\ Len(out) = 2
  /\ out[1].op = "Append"
  /\ out[1].ok
  /\ out[2].op = "Pop"
  /\ out[2].val = out[1].v
  /\ Len(out[1].preList) >= 2
  /\ Slice = SliceOf(out[1].preList)

TypeOK ==
  /\ \A i \in 1..Len(list) : list[i].Value \in Values
  /\ DOMAIN mapping \subseteq Values
====
